---- MODULE Spec2Model ----
(***************************************************************************)
(* Model of Chatbot-backend.py: the module-level corpus load, the /health  *)
(* and /chat handlers, retrieve_relevant_context (cosine scoring, the      *)
(* list.sort call and the top-n slice) and generate_answer.                *)
(*                                                                         *)
(* Conventions.  Python indices are 0-based and are kept 0-based in        *)
(* similarities and top_indices; chunks[i] of the source is chunks[i+1]    *)
(* here.  A question is a sequence of characters so that str.strip() is    *)
(* computed; chunk texts, contexts and answers are strings.  A cosine      *)
(* score is kept as the exact real dot/(|a||b|), represented by dot and    *)
(* the squared norm product, or as NaN when the norm product is zero       *)
(* (numpy yields 0/0 = nan with a warning, not an exception).              *)
(***************************************************************************)
EXTENDS Integers, Sequences, FiniteSets, TLC

\* ---- bounds of the model ----
NumReqs == 2          \* concurrent requests in Spec
MaxCorpus == 2        \* longest chunk / embedding sequence in Spec
MaxRankCorpus == 7    \* longest embedding sequence in SpecRank
MaxCoord == 1         \* vector coordinates range over 0..MaxCoord
MaxQLen == 2          \* longest raw question

\* ---- program constants ----
DEFAULT_N_RESULTS == 3    \* n_results=3

Reqs == 1..NumReqs
None == "None"
Chars == {" ", "a"}
Whitespace == {" "}

\* The two-dimensional vectors an embedding or a query vector can be.
Vectors == (0..MaxCoord) \X (0..MaxCoord)

\* Raw questions: every character sequence up to MaxQLen.
Questions == UNION {[1..n -> Chars] : n \in 0..MaxQLen}

\* A request body as chat() sees it: a JSON object with a string question,
\* a JSON object without the key, or anything on which .get / .strip raises
\* (no JSON body, a null or non-string question).
Bodies ==
    {[kind |-> "json", question |-> q] : q \in Questions}
        \cup {[kind |-> "nokey"], [kind |-> "malformed"]}

CompletionTexts == {"answer A", "answer B"}
ErrorTexts == {"rate limit exceeded for key gsk_1"}

\* What the embedder call and the completion call can come back with.
EmbedOutcomes == {[ok |-> TRUE, vec |-> v] : v \in Vectors} \cup {[ok |-> FALSE]}
CompletionOutcomes ==
    {[ok |-> TRUE, text |-> t] : t \in CompletionTexts}
        \cup {[ok |-> FALSE, error |-> e] : e \in ErrorTexts}
NoCall == [called |-> FALSE]
NoBody == [kind |-> "none"]
NoResponse == [status |-> "none"]

\* The text of chunk number i (0-based) of the artifact.
ChunkText(i) == "chunk" \o ToString(i)

VARIABLES
    chunks,           \* data['chunks']
    embeddings,       \* data['embeddings']
    GROQ_API_KEY,     \* os.environ.get("GROQ_API_KEY"): None, "" or a key
    pc,               \* per request: idle, embedding, generating, done
    body,             \* per request: request.json
    question,         \* per request: local question of chat()
    similarities,     \* per request: local list of retrieve_relevant_context
    top_indices,      \* per request: local top_indices
    context,          \* per request: local context
    prompt,           \* per request: arguments of the completion call made
    embedOut,         \* per request: outcome of its embedder call
    complOut,         \* per request: outcome of its completion call
    response,         \* per request: what the handler returned
    embedCalls,       \* per request: embedding_model.encode calls made
    completionCalls   \* per request: groq_client...create calls made

corpus == <<chunks, embeddings, GROQ_API_KEY>>
locals == <<question, similarities, top_indices, context, prompt>>
calls == <<embedOut, complOut, embedCalls, completionCalls>>
vars == <<chunks, embeddings, GROQ_API_KEY, pc, body, question, similarities,
          top_indices, context, prompt, embedOut, complOut, response,
          embedCalls, completionCalls>>

\* ---- fixed texts of the handlers ----
Apology == "Sorry, I encountered an error generating the response. Please try again."
ConfigErrorText == "Service configuration error. Please contact administrator."
NoQuestionText == "No question provided"
GenericErrorText == "An error occurred processing your request."

\* ---- str.strip() ----
RECURSIVE LStrip(_)
LStrip(s) ==
    IF s # <<>> /\ Head(s) \in Whitespace THEN LStrip(Tail(s)) ELSE s

RECURSIVE RStrip(_)
RStrip(s) ==
    IF s # <<>> /\ s[Len(s)] \in Whitespace
    THEN RStrip(SubSeq(s, 1, Len(s) - 1))
    ELSE s

StripIdentity(s) == s

Strip(s) == RStrip(LStrip(s))

\* ---- cosine_similarity ----
Dot(a, b) == a[1] * b[1] + a[2] * b[2]
NormSq(a) == Dot(a, a)

\* np.dot(a, b) / (np.linalg.norm(a) * np.linalg.norm(b)); a zero norm
\* product makes the dot product zero as well, so the quotient is nan.
cosine_similarity(a, b) ==
    IF NormSq(a) * NormSq(b) = 0
    THEN [nan |-> TRUE, dot |-> 0, den |-> 0]
    ELSE [nan |-> FALSE, dot |-> Dot(a, b), den |-> NormSq(a) * NormSq(b)]

\* sign(x) * x^2: x/sqrt(A) < y/sqrt(B) iff SignedSq(x)*B < SignedSq(y)*A.
SignedSq(x) == IF x < 0 THEN 0 - x * x ELSE x * x

\* Float comparison s < t: false whenever either side is nan.
ScoreLt(s, t) ==
    /\ ~s.nan
    /\ ~t.nan
    /\ SignedSq(s.dot) * t.den < SignedSq(t.dot) * s.den

\* Float comparison s == t: false whenever either side is nan.
ScoreEq(s, t) ==
    /\ ~s.nan
    /\ ~t.nan
    /\ SignedSq(s.dot) * t.den = SignedSq(t.dot) * s.den

\* ---- list.sort(key=lambda x: x[1], reverse=True) ----
\* CPython's list sort on fewer than 64 items: reverse the list, find the
\* leading run (count_run), extend it by binary insertion (binarysort), and
\* reverse the result.  Only key < key comparisons are made.
Reverse(s) == [k \in 1..Len(s) |-> s[Len(s) + 1 - k]]

KeyLt(x, y) == ScoreLt(x[2], y[2])

RECURSIVE RunAscending(_, _)
RunAscending(w, n) ==
    IF n < Len(w) /\ ~KeyLt(w[n + 1], w[n]) THEN RunAscending(w, n + 1) ELSE n

RECURSIVE RunDescending(_, _)
RunDescending(w, n) ==
    IF n < Len(w) /\ KeyLt(w[n + 1], w[n]) THEN RunDescending(w, n + 1) ELSE n

\* count_run followed by the reversal of a descending run.
CountRun(w) ==
    IF Len(w) < 2 THEN [n |-> Len(w), w |-> w]
    ELSE IF KeyLt(w[2], w[1])
         THEN LET n == RunDescending(w, 2)
              IN  [n |-> n,
                   w |-> Reverse(SubSeq(w, 1, n)) \o SubSeq(w, n + 1, Len(w))]
         ELSE [n |-> RunAscending(w, 2), w |-> w]

\* The bisection of binarysort: l and r are 0-based, pivot goes to l.
RECURSIVE Bisect(_, _, _, _)
Bisect(w, pivot, l, r) ==
    IF l < r
    THEN LET p == l + ((r - l) \div 2)
         IN  IF KeyLt(pivot, w[p + 1])
             THEN Bisect(w, pivot, l, p)
             ELSE Bisect(w, pivot, p + 1, r)
    ELSE l

RECURSIVE BinarySort(_, _)
BinarySort(w, start) ==
    IF start >= Len(w) THEN w
    ELSE LET pivot == w[start + 1]
             l == Bisect(w, pivot, 0, start)
         IN  BinarySort(SubSeq(w, 1, l) \o <<pivot>> \o SubSeq(w, l + 1, start)
                            \o SubSeq(w, start + 2, Len(w)),
                        start + 1)

SortReverse(list) ==
    LET run == CountRun(Reverse(list))
    IN  Reverse(BinarySort(run.w, run.n))

\* ---- retrieve_relevant_context ----
\* The list built by the enumerate loop: (i, sim) for every embedding.
Scored(question_embedding, embs) ==
    [k \in 1..Len(embs) |-> <<k - 1, cosine_similarity(question_embedding, embs[k])>>]

Min(a, b) == IF a < b THEN a ELSE b

\* similarities[:n_results] projected on the index.
TopIndices(sims, n_results) ==
    [k \in 1..Min(n_results, Len(sims)) |-> sims[k][1]]

RECURSIVE Join(_, _)
Join(texts, sep) ==
    IF texts = <<>> THEN ""
    ELSE IF Len(texts) = 1 THEN texts[1]
    ELSE texts[1] \o sep \o Join(Tail(texts), sep)

\* chunks[i] raises IndexError when i is no index of chunks.
IndexError(top, chs) == \E k \in 1..Len(top) : top[k] >= Len(chs)

Assemble(top, chs) == Join([k \in 1..Len(top) |-> chs[top[k] + 1]], "\n\n")

\* ---- generate_answer ----
generate_answer_always_apology(outcome) == Apology

generate_answer(outcome) ==
    IF outcome.ok THEN outcome.text ELSE Apology

\* ---- the responses chat() builds ----
ConfigError == [status |-> 500, error |-> ConfigErrorText, success |-> FALSE]
NoQuestion == [status |-> 400, error |-> NoQuestionText, success |-> FALSE]
GenericError == [status |-> 500, error |-> GenericErrorText, success |-> FALSE]
Answered(q, a) == [status |-> 200, question |-> q, answer |-> a, success |-> TRUE]
Healthy(chs) ==
    [status |-> 200, health |-> "healthy", chunks_loaded |-> Len(chs)]

\* `not GROQ_API_KEY`: None and the empty string are both falsy.
KeyIsNone(key) == key = None

KeyMissing(key) == key \in {None, ""}

\* ---- module-level startup ----
\* The artifact's two sequences are taken as loaded: their lengths are not
\* compared, and a missing key only prints a warning.
ApiKeys == {None, "", "gsk_1"}

ChunksOfLen(n) == [i \in 1..n |-> ChunkText(i - 1)]

EmbeddingSeqs(maxLen) == UNION {[1..n -> Vectors] : n \in 0..maxLen}

InitRequests ==
    /\ pc = [r \in Reqs |-> "idle"]
    /\ body = [r \in Reqs |-> NoBody]
    /\ question = [r \in Reqs |-> <<>>]
    /\ similarities = [r \in Reqs |-> <<>>]
    /\ top_indices = [r \in Reqs |-> <<>>]
    /\ context = [r \in Reqs |-> ""]
    /\ prompt = [r \in Reqs |-> NoCall]
    /\ embedOut = [r \in Reqs |-> NoCall]
    /\ complOut = [r \in Reqs |-> NoCall]
    /\ response = [r \in Reqs |-> NoResponse]
    /\ embedCalls = [r \in Reqs |-> 0]
    /\ completionCalls = [r \in Reqs |-> 0]

\* ---- GET /health ----
HealthCheck(r) ==
    /\ pc[r] = "idle"
    /\ body' = [body EXCEPT ![r] = [kind |-> "health"]]
    /\ response' = [response EXCEPT ![r] = Healthy(chunks)]
    /\ pc' = [pc EXCEPT ![r] = "done"]
    /\ UNCHANGED <<corpus, locals, calls>>

\* ---- POST /chat, up to the embedder call ----
RawQuestion(b) == IF b.kind = "nokey" THEN <<>> ELSE b.question

ChatBegin(r, b) ==
    /\ pc[r] = "idle"
    /\ body' = [body EXCEPT ![r] = b]
    /\ IF KeyMissing(GROQ_API_KEY)
       THEN /\ response' = [response EXCEPT ![r] = ConfigError]
            /\ pc' = [pc EXCEPT ![r] = "done"]
            /\ UNCHANGED <<question, embedCalls>>
       ELSE IF b.kind = "malformed"
       THEN /\ response' = [response EXCEPT ![r] = GenericError]
            /\ pc' = [pc EXCEPT ![r] = "done"]
            /\ UNCHANGED <<question, embedCalls>>
       ELSE LET q == Strip(RawQuestion(b))
            IN  /\ question' = [question EXCEPT ![r] = q]
                /\ IF q = <<>>
                   THEN /\ response' = [response EXCEPT ![r] = NoQuestion]
                        /\ pc' = [pc EXCEPT ![r] = "done"]
                        /\ UNCHANGED embedCalls
                   ELSE /\ embedCalls' = [embedCalls EXCEPT ![r] = @ + 1]
                        /\ pc' = [pc EXCEPT ![r] = "embedding"]
                        /\ UNCHANGED response
    /\ UNCHANGED <<corpus, similarities, top_indices, context, prompt,
                   embedOut, complOut, completionCalls>>

\* ---- the embedder call raises: chat()'s except clause answers ----
EmbedFail(r) ==
    /\ pc[r] = "embedding"
    /\ embedOut' = [embedOut EXCEPT ![r] = [ok |-> FALSE]]
    /\ response' = [response EXCEPT ![r] = GenericError]
    /\ pc' = [pc EXCEPT ![r] = "done"]
    /\ UNCHANGED <<corpus, body, locals, complOut, embedCalls, completionCalls>>

\* ---- the embedder call returns v: scoring, sort, slice, join, and the
\* ---- completion call of generate_answer is issued
Retrieve(r, v) ==
    /\ pc[r] = "embedding"
    /\ embedOut' = [embedOut EXCEPT ![r] = [ok |-> TRUE, vec |-> v]]
    /\ LET sims == SortReverse(Scored(v, embeddings))
           top == TopIndices(sims, DEFAULT_N_RESULTS)
       IN  /\ similarities' = [similarities EXCEPT ![r] = sims]
           /\ top_indices' = [top_indices EXCEPT ![r] = top]
           /\ IF IndexError(top, chunks)
              THEN /\ response' = [response EXCEPT ![r] = GenericError]
                   /\ pc' = [pc EXCEPT ![r] = "done"]
                   /\ UNCHANGED <<context, prompt, completionCalls>>
              ELSE LET ctx == Assemble(top, chunks)
                   IN  /\ context' = [context EXCEPT ![r] = ctx]
                       /\ prompt' = [prompt EXCEPT ![r] =
                                       [context |-> ctx, question |-> question[r]]]
                       /\ completionCalls' = [completionCalls EXCEPT ![r] = @ + 1]
                       /\ pc' = [pc EXCEPT ![r] = "generating"]
                       /\ UNCHANGED response
    /\ UNCHANGED <<body, question, complOut, embedCalls>>

\* A retrieval that sorts the shared embeddings list instead of a local one.
EmbedReturnSortingCorpus(r, v) ==
    /\ Retrieve(r, v)
    /\ embeddings' = Reverse(embeddings)
    /\ UNCHANGED <<chunks, GROQ_API_KEY>>

EmbedReturn(r, v) ==
    /\ Retrieve(r, v)
    /\ UNCHANGED corpus

\* ---- the completion call returns or raises: generate_answer, then the
\* ---- success response of chat()
Completion(r, o) ==
    /\ pc[r] = "generating"
    /\ complOut' = [complOut EXCEPT ![r] = o]
    /\ response' = [response EXCEPT ![r] = Answered(question[r], generate_answer(o))]
    /\ pc' = [pc EXCEPT ![r] = "done"]
    /\ UNCHANGED <<corpus, body, locals, embedOut, embedCalls, completionCalls>>

\* ---- the server under concurrent requests ----
\* NumReqs requests interleave at their two blocking calls.  The artifact,
\* the bodies and the query vectors come from a small fixed family that
\* tells requests apart: an empty corpus, matching and mismatching
\* lengths, a zero-norm embedding.
ConcArtifacts ==
    {[chunks |-> ChunksOfLen(0), embeddings |-> <<>>],
     [chunks |-> ChunksOfLen(1), embeddings |-> <<<<1, 0>>>>],
     [chunks |-> ChunksOfLen(2), embeddings |-> <<<<1, 0>>, <<0, 1>>>>],
     [chunks |-> ChunksOfLen(2), embeddings |-> <<<<0, 0>>, <<0, 1>>>>],
     [chunks |-> ChunksOfLen(1), embeddings |-> <<<<1, 0>>, <<0, 1>>>>]}

ConcBodies ==
    {[kind |-> "json", question |-> <<"a">>],
     [kind |-> "json", question |-> <<" ", "a">>],
     [kind |-> "json", question |-> <<" ">>],
     [kind |-> "nokey"],
     [kind |-> "malformed"]}

ConcVectors == {<<0, 0>>, <<1, 0>>, <<0, 1>>}

Init ==
    /\ \E art \in ConcArtifacts :
          chunks = art.chunks /\ embeddings = art.embeddings
    /\ GROQ_API_KEY \in ApiKeys
    /\ InitRequests

Next ==
    \/ \E r \in Reqs : HealthCheck(r)
    \/ \E r \in Reqs, b \in ConcBodies : ChatBegin(r, b)
    \/ \E r \in Reqs : EmbedFail(r)
    \/ \E r \in Reqs, v \in ConcVectors : EmbedReturn(r, v)
    \/ \E r \in Reqs, o \in CompletionOutcomes : Completion(r, o)

Spec == Init /\ [][Next]_vars

\* ---- one request against every artifact, body and outcome ----
InitChat ==
    /\ \E n \in 0..MaxCorpus : chunks = ChunksOfLen(n)
    /\ embeddings \in EmbeddingSeqs(MaxCorpus)
    /\ GROQ_API_KEY \in ApiKeys
    /\ InitRequests

NextChat ==
    \/ HealthCheck(1)
    \/ \E b \in Bodies : ChatBegin(1, b)
    \/ EmbedFail(1)
    \/ \E v \in Vectors : EmbedReturn(1, v)
    \/ \E o \in CompletionOutcomes : Completion(1, o)

SpecChat == InitChat /\ [][NextChat]_vars

\* ---- the ranking step on its own: one request, a fixed question, every
\* ---- corpus up to MaxRankCorpus and every query vector
InitRank ==
    /\ embeddings \in EmbeddingSeqs(MaxRankCorpus)
    /\ chunks = ChunksOfLen(Len(embeddings))
    /\ GROQ_API_KEY = "gsk_1"
    /\ InitRequests

NextRank ==
    \/ ChatBegin(1, [kind |-> "json", question |-> <<"a">>])
    \/ \E v \in Vectors : EmbedReturn(1, v)

SpecRank == InitRank /\ [][NextRank]_vars

\* ======================= properties =======================
Called(o) == "ok" \in DOMAIN o
Succeeded(o) == Called(o) /\ o.ok
Failed(o) == Called(o) /\ ~o.ok
IsChat(b) == b.kind \in {"json", "nokey", "malformed"}
HasQuestion(b) == b.kind \in {"json", "nokey"}
AllWhitespace(q) == \A i \in 1..Len(q) : q[i] \in Whitespace
KeyConfigured == GROQ_API_KEY \notin {None, ""}
Message(resp) == IF "error" \in DOMAIN resp THEN resp.error ELSE resp.answer

\* q is raw without its leading and trailing whitespace, and is not empty.
Trimmed(raw, q) ==
    \E i \in 1..Len(raw), j \in 1..Len(raw) :
        /\ i <= j
        /\ q = SubSeq(raw, i, j)
        /\ raw[i] \notin Whitespace
        /\ raw[j] \notin Whitespace
        /\ \A k \in 1..Len(raw) : (k < i \/ k > j) => raw[k] \in Whitespace

\* A request whose question is empty or whitespace-only got the 400
\* "No question provided" answer without any embedder or completion call,
\* and that answer differs in status and text from the answers to a failed
\* embedder or completion call.
EmptyQuestionRejected(r) ==
    /\ pc[r] = "done"
    /\ response[r] = NoQuestion
    /\ embedCalls[r] = 0
    /\ completionCalls[r] = 0
    /\ response[r].status \notin {GenericError.status, Answered(<<>>, Apology).status}
    /\ response[r].error \notin {GenericError.error, Apology}

\* C1 as stated: every chat request with an empty or whitespace-only
\* question is rejected with the input-validation error, with no embedder
\* and no completion call, distinguishably from a generation failure.
C1_Original ==
    \A r \in Reqs :
        (HasQuestion(body[r]) /\ AllWhitespace(RawQuestion(body[r])))
            => EmptyQuestionRejected(r)

\* C1 amended: when the API key is configured, every chat request with an
\* empty or whitespace-only question is rejected with the input-validation
\* error, with no embedder and no completion call, distinguishably from a
\* generation failure.
C1_EmptyQuestionRejected ==
    \A r \in Reqs :
        (KeyConfigured /\ HasQuestion(body[r]) /\ AllWhitespace(RawQuestion(body[r])))
            => EmptyQuestionRejected(r)

C1_Witness ==
    \E r \in Reqs :
        /\ KeyConfigured
        /\ pc[r] = "done"
        /\ body[r] = [kind |-> "json", question |-> <<" ", " ">>]
        /\ response[r] = NoQuestion

\* C2 as stated: whenever the completion call of a request fails, the
\* request still completes, the caller receives the fixed apology (no part
\* of the error text), and the success flag returned is false.
C2_Original ==
    \A r \in Reqs :
        Failed(complOut[r])
            => /\ pc[r] = "done"
               /\ Message(response[r]) = Apology
               /\ Message(response[r]) # complOut[r].error
               /\ response[r].success = FALSE

\* C3: when the embedder call and the completion call of a request both
\* succeed, the response is the 200 answer with success true, the answer
\* equal to the completion text, and the (trimmed) question.
C3_SuccessResponse ==
    \A r \in Reqs :
        (Succeeded(embedOut[r]) /\ Succeeded(complOut[r]))
            => /\ pc[r] = "done"
               /\ response[r].status = 200
               /\ response[r].success = TRUE
               /\ response[r].answer = complOut[r].text
               /\ Trimmed(RawQuestion(body[r]), response[r].question)

C3_Witness ==
    \E r \in Reqs :
        /\ Succeeded(embedOut[r])
        /\ Succeeded(complOut[r])
        /\ Len(chunks) = 1
        /\ Len(embeddings) = 1
        /\ body[r] = [kind |-> "json", question |-> <<" ", "a">>]
        /\ response[r] = Answered(<<"a">>, "answer B")

\* C4 as stated: when the embedder call of a request fails, no completion
\* call is made for it and the caller receives the same generic message and
\* false success flag as a request whose completion call failed.
C4_Original ==
    \A r \in Reqs :
        Failed(embedOut[r])
            => /\ pc[r] = "done"
               /\ completionCalls[r] = 0
               /\ response[r].success = FALSE
               /\ Message(response[r]) \notin ErrorTexts
               /\ \A r2 \in Reqs :
                     (Failed(complOut[r2]) /\ pc[r2] = "done")
                         => /\ response[r2].success = FALSE
                            /\ Message(response[r2]) = Message(response[r])

\* A chat request served without a key: configuration error, no
\* validation of the question, no embedder or completion call.
KeyMissingState ==
    \A r \in Reqs :
        (~KeyConfigured /\ IsChat(body[r]))
            => /\ pc[r] = "done"
               /\ response[r] = ConfigError
               /\ response[r].success = FALSE
               /\ question[r] = <<>>
               /\ embedCalls[r] = 0
               /\ completionCalls[r] = 0

\* C5: when the API key is missing, every chat request is answered with the
\* configuration error and a false success flag, without validation of the
\* question and without any embedder or completion call; the key never
\* changes during the process lifetime.
C5_ConfigError ==
    /\ []KeyMissingState
    /\ [][GROQ_API_KEY' = GROQ_API_KEY]_vars

C5_Witness ==
    \E r \in Reqs :
        /\ GROQ_API_KEY = ""
        /\ pc[r] = "done"
        /\ body[r] = [kind |-> "json", question |-> <<"a", " ">>]
        /\ response[r] = ConfigError
        /\ embedCalls[r] = 0

\* The score of chunk i (0-based) against the query vector of request r.
ScoreOf(r, i) == cosine_similarity(embedOut[r].vec, embeddings[i + 1])
Ranked(r) == Succeeded(embedOut[r])

\* C6 as stated: the ranking yields the first top_n corpus indices in
\* non-increasing score order: min(top_n, corpus size) indices, none twice,
\* no chunk left out that scores higher than a selected one, and the
\* context is the selected chunks' texts in that order joined by "\n\n".
C6_Original ==
    \A r \in Reqs :
        Ranked(r)
            => LET top == top_indices[r]
               IN  /\ Len(top) = Min(DEFAULT_N_RESULTS, Len(embeddings))
                   /\ \A p, q \in 1..Len(top) : p # q => top[p] # top[q]
                   /\ \A p \in 1..Len(top) : top[p] \in 0..(Len(embeddings) - 1)
                   /\ \A p, q \in 1..Len(top) :
                         p < q => ~ScoreLt(ScoreOf(r, top[p]), ScoreOf(r, top[q]))
                   /\ \A p \in 1..Len(top), i \in 0..(Len(embeddings) - 1) :
                         (\A q \in 1..Len(top) : top[q] # i)
                             => ~ScoreLt(ScoreOf(r, top[p]), ScoreOf(r, i))
                   /\ pc[r] = "generating"
                   /\ context[r] = Join([k \in 1..Len(top) |-> chunks[top[k] + 1]], "\n\n")

\* The response of a request served alone: a function of the corpus, the
\* key, the request body and the outcomes of the request's own two calls.
Sequential(key, chs, embs, b, eo, co) ==
    IF b.kind = "health" THEN Healthy(chs)
    ELSE IF key \in {None, ""} THEN ConfigError
    ELSE IF b.kind = "malformed" THEN GenericError
    ELSE IF AllWhitespace(RawQuestion(b)) THEN NoQuestion
    ELSE IF ~Succeeded(eo) THEN GenericError
    ELSE IF IndexError(TopIndices(SortReverse(Scored(eo.vec, embs)), DEFAULT_N_RESULTS), chs)
         THEN GenericError
    ELSE Answered(Strip(RawQuestion(b)), generate_answer(co))

Independent ==
    \A r \in Reqs :
        pc[r] = "done"
            => response[r] = Sequential(GROQ_API_KEY, chunks, embeddings,
                                        body[r], embedOut[r], complOut[r])

\* C7: under every interleaving of the requests, no step changes the chunk
\* or embedding sequence, and the response of every finished request is the
\* one it would get served alone, from its own body and the outcomes of its
\* own embedder and completion calls.
C7_CorpusImmutable ==
    /\ [][chunks' = chunks /\ embeddings' = embeddings]_vars
    /\ []Independent

C7_Witness ==
    /\ \A r \in Reqs : pc[r] = "done"
    /\ \E r1, r2 \in Reqs :
          /\ r1 # r2
          /\ Succeeded(complOut[r1])
          /\ Succeeded(complOut[r2])
          /\ response[r1] # response[r2]
          /\ context[r1] # context[r2]

\* C8 as stated: in the sorted similarities list, two entries with
\* identical scores appear in ascending corpus index order.
C8_Original ==
    \A r \in Reqs :
        Ranked(r)
            => \A p, q \in 1..Len(similarities[r]) :
                  (p < q /\ ScoreEq(similarities[r][p][2], similarities[r][q][2]))
                      => similarities[r][p][1] < similarities[r][q][1]

\* C9 as stated: no nan score takes part in the sort, and every chunk with a
\* zero-norm embedding is ranked after every chunk with a nonzero norm.
C9_Original ==
    \A r \in Reqs :
        Ranked(r)
            => /\ \A p \in 1..Len(similarities[r]) : ~similarities[r][p][2].nan
               /\ \A p, q \in 1..Len(similarities[r]) :
                     (/\ NormSq(embeddings[similarities[r][p][1] + 1]) = 0
                      /\ NormSq(embeddings[similarities[r][q][1] + 1]) # 0)
                         => q < p

\* C10 as stated: whenever a request is being served, the chunk and
\* embedding sequences have the same length and every ranked index is an
\* index of chunks.
C10_Original ==
    \A r \in Reqs :
        (pc[r] # "idle" /\ IsChat(body[r]))
            => /\ Len(chunks) = Len(embeddings)
               /\ \A k \in 1..Len(top_indices[r]) : top_indices[r][k] < Len(chunks)

====
